---- MODULE Spec2Model ----
(***************************************************************************)
(* A model of the linear undo/redo engine of redo.rs: Record (record.rs)   *)
(* driven by commands that implement the Command trait (lib.rs).           *)
(*                                                                         *)
(* The receiver is a text buffer (a sequence of characters), as in the     *)
(* doc examples of record.rs and lib.rs.  Option<usize> is modelled as a   *)
(* set with at most one element: {} is None and {k} is Some(k).            *)
(***************************************************************************)
EXTENDS Integers, Sequences, FiniteSets, TLC

\* ------------------------------------------------------------------ bounds
MaxLen == 2
MaxRecv == 2
MaxLimit == 2
MaxTree == 3
\* MaxLen   a command is pushed only while the cursor is below it, or when
\*          the push drops the front command
\* MaxRecv  an Add is applied only to a receiver shorter than this
\* MaxLimit RecordBuilder::limit is drawn from 0..MaxLimit
\* MaxTree  a History is given commands while its branches hold fewer than
\*          this together; go_to is called for the branches whose path has
\*          at most MaxLen commands

Chars == {"a", "b"}

VARIABLES
    commands,   \* Record.commands : VecDeque<C>
    receiver,   \* Record.receiver : R (a text buffer)
    cursor,     \* Record.cursor   : usize
    limit,      \* Record.limit    : usize, 0 is "no limit"
    saved,      \* Record.saved    : Option<usize>
    signals,    \* Record.signals  : TRUE iff an observer is connected
    emitted,    \* what the observer received during the last operation
    last,       \* the last call: its name, result and merge outcome
    base,       \* the receiver that lies below commands[0]
    mark,       \* the cursor of the last set_saved, while it is in force
    trail,      \* the calls made in a row, while they follow a tracked pattern
    snapshot,   \* the receiver at the last set_saved, at first the one of new
    root,       \* History.root     : the id of the branch held by the Record
    next_id,    \* History.next_id  : the id the next branch gets
    branches,   \* History.branches : id -> Branch { parent: At, commands }
    map,        \* Group.map        : key -> Record
    active      \* Group.active     : Option<K>

vars == <<commands, receiver, cursor, limit, saved, signals, emitted, last, base,
          mark, trail, snapshot, root, next_id, branches, map, active>>

\* The History around the Record, and the Group.
history == <<root, next_id, branches>>
group == <<map, active>>

\* ------------------------------------------------------------ the commands
\* Add(text): pushes text on the buffer (record.rs:69-81, lib.rs:148-166).
\* `merges` tells whether the command takes part in manual merging, and
\* `redone` whether the command's own redo has run.
Add(t, m) == [kind |-> "Add", text |-> t, merges |-> m, redone |-> FALSE]
\* Del: removes the last character and keeps it for undo.  Del overrides
\* Command::redo.
Del(m) == [kind |-> "Del", text |-> <<>>, merges |-> m, redone |-> FALSE]

\* The commands handed to apply.
Inputs == {Add(<<c>>, FALSE) : c \in Chars} \cup {Add(<<"b">>, TRUE), Del(TRUE)}

Front(s) == SubSeq(s, 1, Len(s) - 1)
Last(s) == s[Len(s)]

\* Command::apply: the outcome, the receiver and the command afterwards.
CmdApply(c, r) ==
    IF c.kind = "Add"
    THEN [ok |-> TRUE, r |-> r \o c.text, c |-> c]
    ELSE IF r = <<>>
         THEN [ok |-> FALSE, r |-> r, c |-> c]
         ELSE [ok |-> TRUE, r |-> Front(r), c |-> [c EXCEPT !.text = <<Last(r)>>]]

\* Command::undo: Add pops what it pushed and keeps what it popped
\* (`self.0 = s.pop().ok_or(..)?`); Del pushes back what it removed.
CmdUndo(c, r) ==
    IF c.kind = "Add"
    THEN IF Len(r) < Len(c.text)
         THEN [ok |-> FALSE, r |-> r, c |-> c]
         ELSE [ok |-> TRUE,
               r |-> SubSeq(r, 1, Len(r) - Len(c.text)),
               c |-> [c EXCEPT !.text = SubSeq(r, Len(r) - Len(c.text) + 1, Len(r))]]
    ELSE [ok |-> TRUE, r |-> r \o c.text, c |-> c]

\* A command that returns Err: by the Command contract it leaves the
\* receiver as it was.
Fails(c, r) == [ok |-> FALSE, r |-> r, c |-> c]

\* Command::redo: the default is apply (lib.rs:136-138); Del's override does
\* what its apply does and notes that it ran.
CmdRedo(c, r) ==
    LET a == CmdApply(c, r)
    IN IF c.kind = "Del" /\ a.ok THEN [a EXCEPT !.c.redone = TRUE] ELSE a

\* Command::merge: the default gives the command back (No); a merging Add
\* absorbs a merging Add (Yes), and absorbs a merging Del by giving up its
\* last character: Yes while text is left, Annul when the two cancel.
CmdMerge(top, c) ==
    IF top.kind = "Add" /\ top.merges /\ c.merges
    THEN IF c.kind = "Add"
         THEN [res |-> "Yes", top |-> [top EXCEPT !.text = top.text \o c.text]]
         ELSE IF Len(top.text) = 0
              THEN [res |-> "No", top |-> top]
              ELSE [res |-> IF Len(top.text) = 1 THEN "Annul" ELSE "Yes",
                    top |-> [top EXCEPT !.text = Front(top.text)]]
    ELSE [res |-> "No", top |-> top]

\* ------------------------------------------------------------- the signals
SigUndo(b) == [sig |-> "Undo", on |-> b]
SigRedo(b) == [sig |-> "Redo", on |-> b]
SigSaved(b) == [sig |-> "Saved", on |-> b]
\* Signal::Active of record.rs is the Cursor signal of lib.rs.
SigActive(o, n) == [sig |-> "Active", old |-> o, new |-> n]

If(b, s) == IF b THEN <<s>> ELSE <<>>

\* ------------------------------------------------------------- the Record
Self == [commands |-> commands, receiver |-> receiver, cursor |-> cursor,
         limit |-> limit, saved |-> saved, signals |-> signals]

New(r, l, o) == [commands |-> <<>>, receiver |-> r, cursor |-> 0,
                 limit |-> l, saved |-> {0}, signals |-> o]

len(rec) == Len(rec.commands)
\* A faulty can_undo: the first command cannot be undone.
CanUndoAboveOne(rec) == rec.cursor > 1

can_undo(rec) == rec.cursor > 0
\* A faulty can_redo: the last command cannot be redone.
CanRedoShort(rec) == rec.cursor + 1 < Len(rec.commands)

can_redo(rec) == rec.cursor < len(rec)
is_saved(rec) == rec.cursor \in rec.saved

\* What an operation hands back: the Record afterwards, its result ("Ok",
\* "Err" or "None"), the signals sent, and for apply the merge outcome
\* ("Push" when merge was not called), whether the front command was
\* dropped, the commands removed above the cursor, and the command that an
\* error carries back ({} when there is none).
Outcome(rec, res, sigs, m, ev, tl) ==
    [rec |-> rec, res |-> res, sigs |-> IF rec.signals THEN sigs ELSE <<>>,
     merge |-> m, evicted |-> ev, tail |-> tl, back |-> {}]

\* A faulty set_saved: Saved(true) is sent at every call.
SetSavedAlwaysSignals(rec) ==
    Outcome([rec EXCEPT !.saved = {rec.cursor}], "Ok",
            <<SigSaved(TRUE)>>, "-", FALSE, <<>>)

set_saved(rec) ==
    LET was_saved == is_saved(rec)
    IN Outcome([rec EXCEPT !.saved = {rec.cursor}], "Ok",
               If(~was_saved, SigSaved(TRUE)), "-", FALSE, <<>>)

set_unsaved(rec) ==
    LET was_saved == is_saved(rec)
    IN Outcome([rec EXCEPT !.saved = {}], "Ok",
               If(was_saved, SigSaved(FALSE)), "-", FALSE, <<>>)

\* A faulty clear: saved is left as it was.
ClearKeepsSaved(rec) ==
    Outcome([rec EXCEPT !.commands = <<>>, !.cursor = 0], "Ok",
            If(rec.cursor # 0, SigActive(rec.cursor, 0))
              \o If(can_undo(rec), SigUndo(FALSE))
              \o If(can_redo(rec), SigRedo(FALSE))
              \o If(~is_saved(rec), SigSaved(TRUE)),
            "-", FALSE, <<>>)

clear(rec) ==
    LET could_undo == can_undo(rec)
        could_redo == can_redo(rec)
        was_saved == is_saved(rec)
        old == rec.cursor
    IN Outcome([rec EXCEPT !.commands = <<>>, !.cursor = 0, !.saved = {0}], "Ok",
               If(old # 0, SigActive(old, 0)) \o If(could_undo, SigUndo(FALSE))
                 \o If(could_redo, SigRedo(FALSE)) \o If(~was_saved, SigSaved(TRUE)),
               "-", FALSE, <<>>)

\* A faulty MergeErr: the command is pushed although it was merged.
MergeErrAlways(m, cmd) == {cmd}

\* `last.merge(cmd).err()`: the command to push, if merge gave one back.
MergeErr(m, cmd) == IF m.res = "No" THEN {cmd} ELSE {}

\* A faulty AtLimit: the front command is dropped one push too late.
AtLimitLate(rec) == rec.limit # 0 /\ rec.limit + 1 = rec.cursor

\* Whether the push drops the front command (record.rs:287).
AtLimit(rec) == rec.limit # 0 /\ rec.limit = rec.cursor

\* A faulty ShiftSaved: a saved index of 0 stays 0.
ShiftSavedStaysAtZero(s) == {IF k = 0 THEN 0 ELSE k - 1 : k \in s}

\* The saved index after the front command was dropped (record.rs:289).
ShiftSaved(s) == {k - 1 : k \in s \ {0}}

\* A faulty RepairSaved: the saved index is kept whatever was removed.
RepairSavedNever(s, cur) == s

\* A faulty RepairSaved: a saved index at the cursor is forgotten too.
RepairSavedAtCursor(s, cur) == {k \in s : ~(k >= cur)}

\* The saved index after the commands above the cursor were removed
\* (record.rs:277-279).
RepairSaved(s, cur) == {k \in s : ~(k > cur)}

\* A faulty MergeGuard: merge is asked of the top command of a saved record.
MergeGuardAnyTop(cmds, was_saved) == cmds # <<>>

\* A faulty DropFront: pop_back is called for pop_front.
DropBack(cmds) == Front(cmds)

\* `self.commands.pop_front()` (record.rs:288).
DropFront(cmds) == Tail(cmds)

\* A faulty ApplySignals: the cursor signal is sent only when it moved.
ApplySignalsOnMove(old, new, could_undo, could_redo, was_saved) ==
    If(old # new, SigActive(old, new)) \o If(could_redo, SigRedo(FALSE))
        \o If(~could_undo, SigUndo(TRUE)) \o If(was_saved, SigSaved(FALSE))

\* The signals of a successful apply (record.rs:297-312).
ApplySignals(old, new, could_undo, could_redo, was_saved) ==
    <<SigActive(old, new)>> \o If(could_redo, SigRedo(FALSE))
        \o If(~could_undo, SigUndo(TRUE)) \o If(was_saved, SigSaved(FALSE))

\* A faulty UndoSignals: Redo(true) is sent without the `old == len` check.
UndoSignalsAlwaysRedo(old, new, length, was_saved, now_saved) ==
    <<SigActive(old, new)>> \o <<SigRedo(TRUE)>>
        \o If(old = 1, SigUndo(FALSE))
        \o If(was_saved # now_saved, SigSaved(now_saved))

\* The signals of a successful undo (record.rs:337-352).
UndoSignals(old, new, length, was_saved, now_saved) ==
    <<SigActive(old, new)>> \o If(old = length, SigRedo(TRUE))
        \o If(old = 1, SigUndo(FALSE))
        \o If(was_saved # now_saved, SigSaved(now_saved))

\* A faulty RedoSignals: Undo(true) is sent before Redo(false).
RedoSignalsUndoFirst(old, new, length, was_saved, now_saved) ==
    <<SigActive(old, new)>> \o If(old = 0, SigUndo(TRUE))
        \o If(old = length - 1, SigRedo(FALSE))
        \o If(was_saved # now_saved, SigSaved(now_saved))

\* The signals of a successful redo (record.rs:377-392).
RedoSignals(old, new, length, was_saved, now_saved) ==
    <<SigActive(old, new)>> \o If(old = length - 1, SigRedo(FALSE))
        \o If(old = 0, SigUndo(TRUE))
        \o If(was_saved # now_saved, SigSaved(now_saved))

\* Whether apply asks the top command to merge (record.rs:282).
MergeGuard(cmds, was_saved) == cmds # <<>> /\ ~was_saved

\* A faulty SplitOff: the command at the cursor stays in the record.
SplitOffLate(cmds, at) ==
    IF at < Len(cmds)
    THEN [kept |-> SubSeq(cmds, 1, at + 1), tail |-> SubSeq(cmds, at + 2, Len(cmds))]
    ELSE [kept |-> cmds, tail |-> <<>>]

\* `self.commands.split_off(self.cursor)` (record.rs:273): what stays and
\* what is handed to the caller.
SplitOff(cmds, at) ==
    [kept |-> SubSeq(cmds, 1, at), tail |-> SubSeq(cmds, at + 1, Len(cmds))]

\* A faulty ApplyFailed: the commands above the cursor are removed before
\* the command is applied, and stay removed when it fails.
ApplyFailedDropsTail(rec, cmd) ==
    [Outcome([rec EXCEPT !.commands = SubSeq(rec.commands, 1, rec.cursor)],
             "Err", <<>>, "-", FALSE, <<>>) EXCEPT !.back = {cmd}]

\* `Err(e) => Err(Error(cmd, e))` (record.rs:315).
ApplyFailed(rec, cmd) ==
    [Outcome(rec, "Err", <<>>, "-", FALSE, <<>>) EXCEPT !.back = {cmd}]

apply(rec, cmd0) ==
    LET a == CmdApply(cmd0, rec.receiver)
    IN IF ~a.ok
       THEN ApplyFailed(rec, a.c)
       ELSE
       LET old == rec.cursor
           could_undo == can_undo(rec)
           could_redo == can_redo(rec)
           was_saved == is_saved(rec)
           kept == SplitOff(rec.commands, rec.cursor).kept
           tail == SplitOff(rec.commands, rec.cursor).tail
           saved1 == RepairSaved(rec.saved, rec.cursor)
           asked == MergeGuard(kept, was_saved)
           m == IF asked THEN CmdMerge(Last(kept), a.c) ELSE [res |-> "No", top |-> <<>>]
           kept1 == IF asked THEN [kept EXCEPT ![Len(kept)] = m.top] ELSE kept
           push == MergeErr(m, a.c)
           evict == push # {} /\ AtLimit(rec)
           cmds2 == IF push = {} THEN kept1
                    ELSE IF evict THEN Append(DropFront(kept1), a.c)
                    ELSE Append(kept1, a.c)
           saved2 == IF evict THEN ShiftSaved(saved1) ELSE saved1
           cursor2 == IF push # {} /\ ~evict THEN rec.cursor + 1 ELSE rec.cursor
       IN Outcome([rec EXCEPT !.receiver = a.r, !.commands = cmds2,
                              !.cursor = cursor2, !.saved = saved2],
                  "Ok",
                  ApplySignals(old, cursor2, could_undo, could_redo, was_saved),
                  IF asked THEN m.res ELSE "Push", evict, tail)

\* A faulty AfterUndo: the command undone is taken out of the record.
AfterUndoPops(rec, u) ==
    [rec EXCEPT !.receiver = u.r,
                !.commands = SubSeq(rec.commands, 1, rec.cursor - 1)
                               \o SubSeq(rec.commands, rec.cursor + 1, Len(rec.commands)),
                !.cursor = rec.cursor - 1]

\* A faulty AfterUndo: the cursor is left where it was.
AfterUndoKeepsCursor(rec, u) ==
    [rec EXCEPT !.receiver = u.r, !.commands[rec.cursor] = u.c]

\* The Record after commands[cursor - 1].undo returned Ok (record.rs:331-334).
AfterUndo(rec, u) ==
    [rec EXCEPT !.receiver = u.r, !.commands[rec.cursor] = u.c,
                !.cursor = rec.cursor - 1]

\* A faulty UndoFailed: the cursor moves although the command failed.
UndoFailedMovesCursor(rec) ==
    Outcome([rec EXCEPT !.cursor = rec.cursor - 1], "Err", <<>>, "-", FALSE, <<>>)

\* Record::undo when the command's undo returned Err: `.map` runs nothing
\* (record.rs:331).
UndoFailed(rec) == Outcome(rec, "Err", <<>>, "-", FALSE, <<>>)

\* Record::redo when the command returned Err (record.rs:371).
RedoFailed(rec) == Outcome(rec, "Err", <<>>, "-", FALSE, <<>>)

\* Record::undo past its guard, when the command's undo gave u.
UndoResult(rec, u) ==
    IF ~u.ok
    THEN UndoFailed(rec)
    ELSE
    LET was_saved == is_saved(rec)
        old == rec.cursor
        rec1 == AfterUndo(rec, u)
        is_saved1 == is_saved(rec1)
    IN Outcome(rec1, "Ok",
               UndoSignals(old, rec1.cursor, len(rec1), was_saved, is_saved1),
               "-", FALSE, <<>>)

undo(rec) ==
    IF ~can_undo(rec)
    THEN Outcome(rec, "None", <<>>, "-", FALSE, <<>>)
    ELSE UndoResult(rec, CmdUndo(rec.commands[rec.cursor], rec.receiver))

\* A faulty AfterRedo: the cursor is left where it was.
AfterRedoKeepsCursor(rec, a) ==
    [rec EXCEPT !.receiver = a.r, !.commands[rec.cursor + 1] = a.c]

\* The Record after commands[cursor].apply returned Ok (record.rs:371-374).
AfterRedo(rec, a) ==
    [rec EXCEPT !.receiver = a.r, !.commands[rec.cursor + 1] = a.c,
                !.cursor = rec.cursor + 1]

\* Record::redo past its guard, when the command gave a.
RedoResult(rec, a) ==
    IF ~a.ok
    THEN RedoFailed(rec)
    ELSE
    LET was_saved == is_saved(rec)
        old == rec.cursor
        rec1 == AfterRedo(rec, a)
        is_saved1 == is_saved(rec1)
    IN Outcome(rec1, "Ok",
               RedoSignals(old, rec1.cursor, len(rec1), was_saved, is_saved1),
               "-", FALSE, <<>>)

redo(rec) ==
    IF ~can_redo(rec)
    THEN Outcome(rec, "None", <<>>, "-", FALSE, <<>>)
    ELSE RedoResult(rec, CmdApply(rec.commands[rec.cursor + 1], rec.receiver))

\* ------------------------------------------------------- the state machine
\* The receiver below commands[0]: the receiver the Record was built with,
\* moved on by every command dropped at the front, and set by clear to the
\* receiver it leaves untouched.
NextBase(op, o) ==
    IF op = "clear" THEN o.rec.receiver
    ELSE IF o.evicted THEN CmdApply(Head(commands), base).r
    ELSE base

\* mark.at is {c} after set_saved at cursor c, until set_unsaved or clear;
\* mark.intact says that since then no apply dropped the front command and
\* no apply was made with the cursor below c.
NextMark(op, o) ==
    IF op = "set_saved" THEN [at |-> {cursor}, intact |-> TRUE]
    ELSE IF op \in {"set_unsaved", "clear"} THEN [at |-> {}, intact |-> TRUE]
    ELSE IF op = "apply" /\ o.res = "Ok" /\ mark.at # {}
              /\ (o.evicted \/ \E c \in mark.at : cursor < c)
         THEN [mark EXCEPT !.intact = FALSE]
    ELSE mark

\* A call as the trail records it.
Tag(op, o) ==
    IF op = "apply" /\ o.res = "Ok"
    THEN IF o.merge \in {"Push", "No"} THEN "aP"
         ELSE IF o.merge = "Yes" THEN "aY" ELSE "aA"
    ELSE IF op = "undo" /\ o.res = "Ok" THEN "u"
    ELSE IF op = "redo" /\ o.res = "Ok" THEN "r"
    ELSE "x"

Patterns == {<<"aP", "u">>, <<"u", "r">>, <<"u", "u", "r", "r">>,
             <<"aP", "aY", "u", "r">>, <<"aP", "aA">>, <<"u", "aP">>}

Prefixes == UNION {{SubSeq(p, 1, n) : n \in 0..Len(p)} : p \in Patterns}

\* The longest end of the calls made that starts a tracked pattern.
Track(t, tag) ==
    LET s == Append(t, tag)
        drop == CHOOSE k \in 0..Len(s) :
                  /\ SubSeq(s, k + 1, Len(s)) \in Prefixes
                  /\ \A j \in 0..(k - 1) : SubSeq(s, j + 1, Len(s)) \notin Prefixes
    IN SubSeq(s, drop + 1, Len(s))

\* A call: the Record becomes the one the operation leaves, and the
\* observations of the call are kept.
Call(op, o) ==
    /\ commands' = o.rec.commands
    /\ receiver' = o.rec.receiver
    /\ cursor' = o.rec.cursor
    /\ limit' = o.rec.limit
    /\ saved' = o.rec.saved
    /\ signals' = o.rec.signals
    /\ emitted' = o.sigs
    /\ last' = [op |-> op, res |-> o.res, merge |-> o.merge, evicted |-> o.evicted]
    /\ base' = NextBase(op, o)

\* A call, with the mark kept.
Step(op, o) ==
    Call(op, o) /\ mark' = NextMark(op, o) /\ UNCHANGED <<trail, snapshot, history, group>>

\* A Record built by RecordBuilder with a limit and an observer
\* (record.rs:646-655), on the default (empty) receiver.
Init ==
    /\ \E l \in 0..MaxLimit :
         /\ commands = New(<<>>, l, TRUE).commands
         /\ receiver = New(<<>>, l, TRUE).receiver
         /\ cursor = New(<<>>, l, TRUE).cursor
         /\ limit = New(<<>>, l, TRUE).limit
         /\ saved = New(<<>>, l, TRUE).saved
         /\ signals = New(<<>>, l, TRUE).signals
    /\ emitted = <<>>
    /\ last = [op |-> "new", res |-> "Ok", merge |-> "-", evicted |-> FALSE]
    /\ base = <<>>
    /\ mark = [at |-> {}, intact |-> TRUE]
    /\ trail = <<>>
    /\ snapshot = New(<<>>, 0, TRUE).receiver
    /\ root = 0
    /\ next_id = 1
    /\ branches = <<>>
    /\ map = <<>>
    /\ active = {}

\* The calls of apply the model makes: the bounds on the record's length
\* and on the receiver's.
ApplyGuard(rec, cmd) ==
    /\ rec.cursor < MaxLen \/ AtLimit(rec)
    /\ cmd.kind = "Add" => Len(rec.receiver) < MaxRecv

Apply == \E cmd \in Inputs : ApplyGuard(Self, cmd) /\ Step("apply", apply(Self, cmd))

Undo == Step("undo", undo(Self))

Redo == Step("redo", redo(Self))

SetSaved == Step("set_saved", set_saved(Self))

SetUnsaved == Step("set_unsaved", set_unsaved(Self))

Clear == Step("clear", clear(Self))

Next == Apply \/ Undo \/ Redo \/ SetSaved \/ SetUnsaved \/ Clear

Spec == Init /\ [][Next]_vars

\* The same calls, with the trail kept.
Tracked(op, o) ==
    /\ Call(op, o)
    /\ trail' = Track(trail, Tag(op, o))
    /\ UNCHANGED <<mark, snapshot, history, group>>

ApplyT == \E cmd \in Inputs : ApplyGuard(Self, cmd) /\ Tracked("apply", apply(Self, cmd))

UndoT == Tracked("undo", undo(Self))

RedoT == Tracked("redo", redo(Self))

SetSavedT == Tracked("set_saved", set_saved(Self))

SetUnsavedT == Tracked("set_unsaved", set_unsaved(Self))

ClearT == Tracked("clear", clear(Self))

NextT == ApplyT \/ UndoT \/ RedoT \/ SetSavedT \/ SetUnsavedT \/ ClearT

SpecTrail == Init /\ [][NextT]_vars

\* The same calls with commands whose undo and redo may fail: whether a
\* command fails is up to the command.
StepE(op, o) == Call(op, o) /\ UNCHANGED <<mark, trail, snapshot, history, group>>

ApplyE == \E cmd \in Inputs : ApplyGuard(Self, cmd) /\ StepE("apply", apply(Self, cmd))

UndoE == StepE("undo", undo(Self))

RedoE == StepE("redo", redo(Self))

UndoFails ==
    /\ can_undo(Self)
    /\ StepE("undo", UndoResult(Self, Fails(commands[cursor], receiver)))

RedoFails ==
    /\ can_redo(Self)
    /\ StepE("redo", RedoResult(Self, Fails(commands[cursor + 1], receiver)))

SetSavedE == StepE("set_saved", set_saved(Self))

SetUnsavedE == StepE("set_unsaved", set_unsaved(Self))

ClearE == StepE("clear", clear(Self))

NextE == ApplyE \/ UndoE \/ RedoE \/ UndoFails \/ RedoFails
            \/ SetSavedE \/ SetUnsavedE \/ ClearE

SpecFail == Init /\ [][NextE]_vars

\* The calls without clear, with the receiver of the last set_saved kept.
NextSnapshot(op) == IF op = "set_saved" THEN receiver ELSE snapshot

StepS(op, o) ==
    /\ Call(op, o)
    /\ snapshot' = NextSnapshot(op)
    /\ UNCHANGED <<mark, trail, history, group>>

ApplyS == \E cmd \in Inputs : ApplyGuard(Self, cmd) /\ StepS("apply", apply(Self, cmd))

UndoS == StepS("undo", undo(Self))

RedoS == StepS("redo", redo(Self))

SetSavedS == StepS("set_saved", set_saved(Self))

SetUnsavedS == StepS("set_unsaved", set_unsaved(Self))

NextS == ApplyS \/ UndoS \/ RedoS \/ SetSavedS \/ SetUnsavedS

SpecSaved == Init /\ [][NextS]_vars

\* ------------------------------------------------------------ the History
\* History is declared in lib.rs (`mod history`, `struct At`, Signal::Root)
\* and its file is not part of the source tree: it is modelled after
\* section 4.5 of the specification.  A cursor counts the commands from the
\* origin: a branch with parent At { branch, cursor } shares the first
\* `cursor` commands of its parent branch and goes on with its own.
\* history.saved is left out.
At(b, k) == [branch |-> b, cursor |-> k]

SigRoot(o, n) == [sig |-> "Root", old |-> o, new |-> n]

HSelf == [rec |-> Self, root |-> root, next_id |-> next_id, branches |-> branches]

\* A faulty NewBranch: the tail is hung at the cursor of before the apply.
NewBranchAtOldCursor(old_root, old_cursor, new_cursor, tail) ==
    [parent |-> At(old_root, old_cursor), commands |-> tail]

\* Branch { parent: At { branch: old_root, cursor: new_cursor_after_apply },
\* commands: the tail }.
NewBranch(old_root, old_cursor, new_cursor, tail) ==
    [parent |-> At(old_root, new_cursor), commands |-> tail]

\* History::apply: the Record applies the command, and a tail it removed is
\* stored as a new branch.
HistoryApply(h, cmd) ==
    LET old_root == h.root
        o == apply(h.rec, cmd)
    IN IF o.res # "Ok" \/ o.tail = <<>>
       THEN [h |-> [h EXCEPT !.rec = o.rec], o |-> o]
       ELSE LET new == h.next_id
                b == NewBranch(old_root, h.rec.cursor, o.rec.cursor, o.tail)
            IN [h |-> [h EXCEPT !.rec = o.rec, !.next_id = new + 1,
                                !.branches = (new :> b) @@ @],
                o |-> o]

\* History::undo and History::redo are forwarded to the Record.
HistoryUndo(h) == LET o == undo(h.rec) IN [h |-> [h EXCEPT !.rec = o.rec], o |-> o]

HistoryRedo(h) == LET o == redo(h.rec) IN [h |-> [h EXCEPT !.rec = o.rec], o |-> o]

\* undo or redo on the Record until its cursor is k, stopping at the first
\* call that does not return Ok.
RECURSIVE MoveTo(_, _)
MoveTo(rec, k) ==
    IF rec.cursor = k THEN [rec |-> rec, ok |-> TRUE, sigs |-> <<>>]
    ELSE LET o == IF rec.cursor > k THEN undo(rec) ELSE redo(rec)
         IN IF o.res # "Ok"
            THEN [rec |-> o.rec, ok |-> FALSE, sigs |-> o.sigs]
            ELSE LET rest == MoveTo(o.rec, k)
                 IN [rest EXCEPT !.sigs = o.sigs \o @]

\* A faulty Splice: the branch is put after everything the Record holds.
SpliceAtEnd(cmds, hop, branch) == cmds \o branch

\* The commands of the Record with a branch spliced in at the hop point.
Splice(cmds, hop, branch) == SubSeq(cmds, 1, hop) \o branch

\* set_root: the branch b, whose parent lies on the root branch, becomes the
\* root.  The commands applied past the hop point are undone, the root's
\* commands past the hop point are set aside as a branch under the old root
\* id, b's commands are spliced in at the hop point, and Root is sent.
set_root(h, b) ==
    LET hop == h.branches[b].parent.cursor
        down == IF h.rec.cursor > hop THEN MoveTo(h.rec, hop)
                ELSE [rec |-> h.rec, ok |-> TRUE, sigs |-> <<>>]
    IN IF ~down.ok
       THEN [h |-> [h EXCEPT !.rec = down.rec], ok |-> FALSE, sigs |-> down.sigs]
       ELSE LET cmds == down.rec.commands
                aside == [parent |-> At(b, hop),
                          commands |-> SubSeq(cmds, hop + 1, Len(cmds))]
                ids == (DOMAIN h.branches \ {b}) \cup {h.root}
            IN [h |-> [h EXCEPT
                         !.rec = [down.rec EXCEPT
                                    !.commands = Splice(cmds, hop, h.branches[b].commands)],
                         !.root = b,
                         !.branches = [i \in ids |-> IF i = h.root THEN aside
                                                    ELSE h.branches[i]]],
                ok |-> TRUE,
                sigs |-> down.sigs \o If(h.rec.signals, SigRoot(h.root, b))]

\* The branches from below the root down to b, along the parent links.
RECURSIVE Chain(_, _)
Chain(h, b) ==
    IF b = h.root THEN <<>>
    ELSE Append(Chain(h, h.branches[b].parent.branch), b)

\* The signals of the steps before, put in front of those of a result.
After(sigs, r) == [r EXCEPT !.sigs = sigs \o @]

\* The result of a step on the Record, as a result on the History.
Moved(h, mv) == [h |-> [h EXCEPT !.rec = mv.rec], ok |-> mv.ok, sigs |-> mv.sigs]

\* The branches of a chain made root one after the other, redoing forward to
\* the next hop point after each.
RECURSIVE SwapAlong(_, _)
RECURSIVE SwapNext(_, _)
RECURSIVE SwapOn(_, _)
SwapAlong(h, chain) ==
    IF chain = <<>> THEN [h |-> h, ok |-> TRUE, sigs |-> <<>>]
    ELSE SwapNext(set_root(h, Head(chain)), Tail(chain))

\* After a swap: stop when it failed or was the last, else move to the hop
\* point of the next branch.
SwapNext(s, rest) ==
    IF ~s.ok \/ rest = <<>> THEN s
    ELSE After(s.sigs,
               SwapOn(Moved(s.h, MoveTo(s.h.rec, s.h.branches[Head(rest)].parent.cursor)),
                      rest))

\* After the move to the next hop point: stop when it failed, else go on.
SwapOn(s, rest) ==
    IF ~s.ok THEN s ELSE After(s.sigs, SwapAlong(s.h, rest))

\* The Record's outcome of a go_to.
Gone(s) ==
    [h |-> s.h,
     o |-> Outcome(s.h.rec, IF s.ok THEN "Ok" ELSE "Err", s.sigs, "-", FALSE, <<>>)]

\* After the swaps of a go_to: stop when one failed, else move to the cursor.
ThenMove(s, k) ==
    IF ~s.ok THEN s ELSE After(s.sigs, Moved(s.h, MoveTo(s.h.rec, k)))

\* go_to(branch, cursor): on the root branch undo or redo to the cursor;
\* else make the target branch the root, hop by hop, and redo forward.
go_to(h, at) == Gone(ThenMove(SwapAlong(h, Chain(h, at.branch)), at.cursor))

\* Whether branch b hangs in the tree: it is the root, or it is stored and
\* its parent is a position of a branch that hangs in the tree.
RECURSIVE Path(_, _)
RECURSIVE InTree(_, _)
InTree(h, b) ==
    \/ b = h.root
    \/ /\ b \in DOMAIN h.branches
       /\ InTree(h, h.branches[b].parent.branch)
       /\ h.branches[b].parent.cursor <= Len(Path(h, h.branches[b].parent.branch))

\* The commands from the origin to the tip of branch b: those of the parent
\* branch up to the parent position, then the branch's own.
Path(h, b) ==
    IF b = h.root THEN h.rec.commands
    ELSE SubSeq(Path(h, h.branches[b].parent.branch), 1, h.branches[b].parent.cursor)
             \o h.branches[b].commands

\* The positions of the tree.
Targets(h) ==
    UNION {{At(b, k) : k \in 0..Len(Path(h, b))}
           : b \in {x \in DOMAIN h.branches \cup {h.root} : InTree(h, x)}}

\* A call on the History.
StepH(op, r) ==
    /\ Call(op, r.o)
    /\ root' = r.h.root
    /\ next_id' = r.h.next_id
    /\ branches' = r.h.branches
    /\ UNCHANGED <<mark, trail, snapshot, group>>

\* History::new: no limit.
InitH == Init /\ limit = 0

\* The number of commands held by the branches 0..n together.
RECURSIVE Held(_, _)
Held(h, n) ==
    IF n < 0 THEN 0
    ELSE Held(h, n - 1)
         + (IF n = h.root THEN len(h.rec)
            ELSE IF n \in DOMAIN h.branches THEN Len(h.branches[n].commands)
            ELSE 0)

\* The commands given to a History.
HInputs == {Add(<<c>>, FALSE) : c \in Chars}

HApply ==
    \E cmd \in HInputs :
        /\ ApplyGuard(Self, cmd)
        /\ Held(HSelf, next_id) < MaxTree
        /\ StepH("apply", HistoryApply(HSelf, cmd))

HUndo == StepH("undo", HistoryUndo(HSelf))

HRedo == StepH("redo", HistoryRedo(HSelf))

GoTo ==
    \E at \in Targets(HSelf) :
        /\ Len(Path(HSelf, at.branch)) <= MaxLen
        /\ StepH("go_to", go_to(HSelf, at))

NextH == HApply \/ HUndo \/ HRedo \/ GoTo

SpecHistory == InitH /\ [][NextH]_vars

\* -------------------------------------------------------------- the Group
\* Group<K, Record>: a map from keys to Records and an active key
\* (group.rs:8-11).  The Records put in are new ones.
Keys == {"k1", "k2"}

GSelf == [map |-> map, active |-> active]

\* A faulty ActiveKey: when the active key is not in the map, a key of the
\* map is taken.
ActiveKeyOrOther(g) ==
    IF g.active # {} /\ g.active \cap DOMAIN g.map = {} /\ DOMAIN g.map # {}
    THEN {CHOOSE k \in DOMAIN g.map : TRUE}
    ELSE {k \in g.active : k \in DOMAIN g.map}

\* A faulty ActiveKey: with no active key, a key of the map is taken.
ActiveKeyOrAny(g) ==
    IF g.active = {} /\ DOMAIN g.map # {}
    THEN {CHOOSE k \in DOMAIN g.map : TRUE}
    ELSE {k \in g.active : k \in DOMAIN g.map}

\* self.active.as_ref().and_then(|active| map.get_mut(active)): the active
\* key when a Record is stored under it.
ActiveKey(g) == {k \in g.active : k \in DOMAIN g.map}

\* The result of a Group operation: the Group afterwards, the result and the
\* signals sent.
NoRecord(g) == [g |-> g, res |-> "None", sigs |-> <<>>]

Forward(g, k, o) ==
    [g |-> [g EXCEPT !.map[k] = o.rec], res |-> o.res, sigs |-> o.sigs]

\* Group::insert and Group::remove.
GroupInsert(g, k, v) == [g EXCEPT !.map = (k :> v) @@ @]

GroupRemove(g, k) == [g EXCEPT !.map = [x \in DOMAIN @ \ {k} |-> @[x]]]

\* Group::get: the item under the active key.
GroupGet(g) == {g.map[k] : k \in ActiveKey(g)}

\* A faulty GroupSet: a key that is not in the map is made active.
GroupSetAnyKey(g, ks) == [g |-> [g EXCEPT !.active = ks], res |-> "true"]

\* Group::set: a key that is not in the map is refused.
GroupSet(g, ks) ==
    IF ks # {} /\ ~(ks \subseteq DOMAIN g.map)
    THEN [g |-> g, res |-> "false"]
    ELSE [g |-> [g EXCEPT !.active = ks], res |-> "true"]

\* Group::push, Group::undo and Group::redo on a Group of Records.
GroupPush(g, cmd) ==
    IF ActiveKey(g) = {} THEN NoRecord(g)
    ELSE LET k == CHOOSE k \in ActiveKey(g) : TRUE
         IN Forward(g, k, apply(g.map[k], cmd))

GroupRedo(g) ==
    IF ActiveKey(g) = {} THEN NoRecord(g)
    ELSE LET k == CHOOSE k \in ActiveKey(g) : TRUE
         IN Forward(g, k, redo(g.map[k]))

GroupUndo(g) ==
    IF ActiveKey(g) = {} THEN NoRecord(g)
    ELSE LET k == CHOOSE k \in ActiveKey(g) : TRUE
         IN Forward(g, k, undo(g.map[k]))

\* A call on the Group.
StepG(op, g, res, sigs) ==
    /\ map' = g.map
    /\ active' = g.active
    /\ emitted' = sigs
    /\ last' = [op |-> op, res |-> res, merge |-> "-", evicted |-> FALSE]
    /\ UNCHANGED <<commands, receiver, cursor, limit, saved, signals, base, snapshot,
                   mark, trail, history>>

\* Group::new.
InitG == Init /\ limit = 0

GInsert == \E k \in Keys : StepG("insert", GroupInsert(GSelf, k, New(<<>>, 0, TRUE)), "-", <<>>)

GRemove == \E k \in DOMAIN map : StepG("remove", GroupRemove(GSelf, k), "-", <<>>)

GSet ==
    \E ks \in {{}} \cup {{k} : k \in Keys} :
        LET r == GroupSet(GSelf, ks) IN StepG("set", r.g, r.res, <<>>)

GPush ==
    \E cmd \in HInputs :
        /\ \A k \in ActiveKey(GSelf) : ApplyGuard(map[k], cmd)
        /\ LET r == GroupPush(GSelf, cmd) IN StepG("push", r.g, r.res, r.sigs)

GUndo == LET r == GroupUndo(GSelf) IN StepG("undo", r.g, r.res, r.sigs)

GRedo == LET r == GroupRedo(GSelf) IN StepG("redo", r.g, r.res, r.sigs)

NextG == GInsert \/ GRemove \/ GSet \/ GPush \/ GUndo \/ GRedo

SpecGroup == InitG /\ [][NextG]_vars

\* ================================================================ claims
\* The receiver after applying cmds in order to r.
RECURSIVE Replay(_, _)
Replay(r, cmds) ==
    IF cmds = <<>> THEN r ELSE Replay(CmdApply(Head(cmds), r).r, Tail(cmds))

\* The receiver the Record was created with.
InitialReceiver == <<>>

Applied == SubSeq(commands, 1, cursor)

\* C1: in every reachable state 0 <= cursor <= len, and len <= limit when
\* a limit is set.
C1_CursorAndLimit ==
    /\ 0 <= cursor
    /\ cursor <= Len(commands)
    /\ limit # 0 => Len(commands) <= limit

\* C1 witness: an apply on a full record dropped the front command.
C1_Witness ==
    /\ last.op = "apply" /\ last.res = "Ok" /\ last.evicted
    /\ limit # 0 /\ Len(commands) = limit /\ cursor = limit

Pushed(o) == o.res = "Ok" /\ o.merge \in {"Push", "No"}

\* C3 as stated: apply(c) then undo(), both successful, leave the receiver
\* and the cursor as they were before the apply.
C3_Original ==
    \A c \in Inputs :
        LET o1 == apply(Self, c)
            o2 == undo(o1.rec)
        IN (ApplyGuard(Self, c) /\ o1.res = "Ok" /\ o2.res = "Ok")
               => /\ o2.rec.receiver = receiver
                  /\ o2.rec.cursor = cursor

\* C3 amended: when apply pushes c as a new entry (merge is not called or
\* gives the command back), a successful undo() after it leaves the receiver
\* as it was before the apply, and the cursor as it was before the apply,
\* or one less when the push dropped the front command.
C3_ApplyUndo ==
    \A c \in Inputs :
        LET o1 == apply(Self, c)
            o2 == undo(o1.rec)
        IN (ApplyGuard(Self, c) /\ Pushed(o1) /\ o2.res = "Ok")
               => /\ o2.rec.receiver = receiver
                  /\ o2.rec.cursor = IF o1.evicted THEN cursor - 1 ELSE cursor

\* C3 witness: a command was pushed and then undone.
C3_Witness ==
    /\ trail = <<"aP", "u">>
    /\ last.op = "undo" /\ last.res = "Ok"
    /\ can_redo(Self)

\* n calls of undo (of redo): the Record afterwards, and whether each
\* returned Ok.
RECURSIVE UndoN(_, _)
UndoN(rec, n) ==
    IF n = 0 THEN [rec |-> rec, ok |-> TRUE]
    ELSE LET o == undo(rec)
         IN IF o.res = "Ok" THEN UndoN(o.rec, n - 1) ELSE [rec |-> o.rec, ok |-> FALSE]

RECURSIVE RedoN(_, _)
RedoN(rec, n) ==
    IF n = 0 THEN [rec |-> rec, ok |-> TRUE]
    ELSE LET o == redo(rec)
         IN IF o.res = "Ok" THEN RedoN(o.rec, n - 1) ELSE [rec |-> o.rec, ok |-> FALSE]

\* C4: with cursor >= P, P successful undo calls followed by P successful
\* redo calls leave receiver, cursor, len and is_saved() as they were.
C4_UndoRedoRoundTrip ==
    \A P \in 1..cursor :
        LET u == UndoN(Self, P)
            r == RedoN(u.rec, P)
        IN (u.ok /\ r.ok)
               => /\ r.rec.receiver = receiver
                  /\ r.rec.cursor = cursor
                  /\ len(r.rec) = Len(commands)
                  /\ is_saved(r.rec) = is_saved(Self)

\* C4 witness: two commands were undone and both redone.
C4_Witness ==
    /\ trail = <<"u", "u", "r", "r">>
    /\ cursor >= 2
    /\ receiver # base

\* C5 as stated: after apply(a) and apply(b) merged into the top command
\* (Yes), len and cursor are as after apply(a), one undo gives the receiver
\* of before apply(a) and one redo the receiver of after apply(b).
C5_Original ==
    \A a \in Inputs :
        LET o1 == apply(Self, a)
        IN (ApplyGuard(Self, a) /\ o1.res = "Ok") =>
               \A b \in Inputs :
                   LET o2 == apply(o1.rec, b)
                       o3 == undo(o2.rec)
                       o4 == redo(o3.rec)
                   IN (ApplyGuard(o1.rec, b) /\ o2.res = "Ok" /\ o2.merge = "Yes")
                          => /\ len(o2.rec) = len(o1.rec)
                             /\ o2.rec.cursor = o1.rec.cursor
                             /\ o3.res = "Ok" /\ o3.rec.receiver = receiver
                             /\ o4.res = "Ok" /\ o4.rec.receiver = o2.rec.receiver

\* C5 amended: the same, when apply(a) pushed a as a new entry (a was not
\* itself merged into the command below it).
C5_MergeUndoRedo ==
    \A a \in Inputs :
        LET o1 == apply(Self, a)
        IN (ApplyGuard(Self, a) /\ Pushed(o1)) =>
               \A b \in Inputs :
                   LET o2 == apply(o1.rec, b)
                       o3 == undo(o2.rec)
                       o4 == redo(o3.rec)
                   IN (ApplyGuard(o1.rec, b) /\ o2.res = "Ok" /\ o2.merge = "Yes")
                          => /\ len(o2.rec) = len(o1.rec)
                             /\ o2.rec.cursor = o1.rec.cursor
                             /\ o3.res = "Ok" /\ o3.rec.receiver = receiver
                             /\ o4.res = "Ok" /\ o4.rec.receiver = o2.rec.receiver

\* C5 witness: a pushed command absorbed the next one, and the merged
\* command was undone and redone.
C5_Witness ==
    /\ trail = <<"aP", "aY", "u", "r">>
    /\ cursor > 0
    /\ Len(commands[cursor].text) = 2

\* C6: after apply(a) and apply(b) annulled by the top command, the top
\* command is removed: len and cursor are one less than after apply(a), len
\* is what it was before apply(a), and so is the receiver.
C6_AnnulRemovesTop ==
    \A a \in Inputs :
        LET o1 == apply(Self, a)
        IN (ApplyGuard(Self, a) /\ o1.res = "Ok") =>
               \A b \in Inputs :
                   LET o2 == apply(o1.rec, b)
                   IN (ApplyGuard(o1.rec, b) /\ o2.res = "Ok" /\ o2.merge = "Annul")
                          => /\ len(o2.rec) = len(o1.rec) - 1
                             /\ o2.rec.cursor = o1.rec.cursor - 1
                             /\ len(o2.rec) = Len(commands)
                             /\ o2.rec.receiver = receiver

\* The commands whose merge is the default: never merged, never annulled.
NonMerging == {c \in Inputs : ~c.merges}

\* apply called with each command of cs in turn: the Record afterwards,
\* whether each call returned Ok, and how many entries the calls pushed.
RECURSIVE ApplyAll(_, _)
ApplyAll(rec, cs) ==
    IF cs = <<>> THEN [rec |-> rec, ok |-> TRUE, pushes |-> 0]
    ELSE LET o == apply(rec, Head(cs))
         IN IF o.res = "Ok"
            THEN LET rest == ApplyAll(o.rec, Tail(cs))
                 IN [rest EXCEPT !.pushes = @ + IF Pushed(o) THEN 1 ELSE 0]
            ELSE [rec |-> o.rec, ok |-> FALSE, pushes |-> 0]

\* C7: on a fresh Record with limit k > 0 and non-merging commands: k
\* applies give len k; k+1 applies give len k with the oldest command
\* dropped and a receiver that reflects all k+1; then exactly k undo calls
\* succeed, the next returns None, and the receiver still reflects the
\* dropped first command.
C7_BoundedGrowth ==
    (last.op = "new" /\ limit > 0) =>
        \A cs \in [1..(limit + 1) -> NonMerging] :
            LET k == limit
                tk == ApplyAll(Self, SubSeq(cs, 1, k))
                t == ApplyAll(Self, cs)
                u == UndoN(t.rec, k)
                n == undo(u.rec)
            IN /\ tk.ok /\ len(tk.rec) = k
               /\ t.ok /\ len(t.rec) = k
               /\ t.rec.commands = SubSeq(cs, 2, k + 1)
               /\ t.rec.receiver = Replay(receiver, cs)
               /\ u.ok
               /\ n.res = "None"
               /\ n.rec.receiver = Replay(receiver, <<cs[1]>>)

\* C7 witness: on a full record whose first command was dropped, every
\* command left was undone and one more undo returned None.
C7_Witness ==
    /\ last.op = "undo" /\ last.res = "None"
    /\ limit > 0 /\ Len(commands) = limit /\ cursor = 0
    /\ \A i \in 1..Len(commands) : ~commands[i].merges
    /\ Len(base) = 1 /\ receiver = base

\* C8 as stated: after set_saved at cursor c, through apply, undo and redo,
\* is_saved() is true exactly when cursor = c.
C8_Original ==
    mark.at # {} => (is_saved(Self) <=> cursor \in mark.at)

\* C8 amended: the same, as long as no apply was made with the cursor below
\* c and no apply dropped the front command because the limit was reached.
C8_SavedAtMark ==
    (mark.at # {} /\ mark.intact) => (is_saved(Self) <=> cursor \in mark.at)

\* C8 witness: after set_saved a command was applied and undone, back to
\* the saved cursor.
C8_Witness ==
    /\ mark.at = {cursor} /\ mark.intact
    /\ last.op = "undo" /\ last.res = "Ok"
    /\ can_redo(Self)
    /\ is_saved(Self)

Sent(sigs, s) == \E i \in 1..Len(sigs) : sigs[i] = s

\* The sequences of one or two commands.
CmdSeqs == [1..1 -> Inputs] \cup [1..2 -> Inputs]

\* C9: a successful apply on a saved record sends Saved(false) and leaves
\* is_saved() false; and when the entries pushed by the commands applied
\* after the save are undone, the last undo sends Saved(true) and
\* is_saved() is true again.
C9_SavedSignals ==
    is_saved(Self) =>
        /\ \A c \in Inputs :
               LET o == apply(Self, c)
               IN (ApplyGuard(Self, c) /\ o.res = "Ok")
                      => (Sent(o.sigs, SigSaved(FALSE)) /\ ~is_saved(o.rec))
        /\ \A cs \in CmdSeqs :
               LET t == ApplyAll(Self, cs)
                   u == UndoN(t.rec, t.pushes - 1)
                   w == undo(u.rec)
               IN (t.ok /\ u.ok /\ w.res = "Ok")
                      => (Sent(w.sigs, SigSaved(TRUE)) /\ is_saved(w.rec))

\* C9 witness: the record was saved, a command was applied, and the undo
\* that came back to the saved cursor sent Saved(true).
C9_Witness ==
    /\ mark.at = {cursor}
    /\ last.op = "undo" /\ last.res = "Ok"
    /\ Sent(emitted, SigSaved(TRUE))
    /\ is_saved(Self)
    /\ receiver # base

Count(sigs, s) == Cardinality({i \in 1..Len(sigs) : sigs[i] = s})

\* The signal `name`(b) is sent once when the query went from ~b to b, and
\* not otherwise.
Edge(name, sigs, before, after) ==
    \A b \in BOOLEAN :
        Count(sigs, [sig |-> name, on |-> b]) = IF before # after /\ after = b THEN 1 ELSE 0

\* C10: in every operation, Undo(b) is sent iff can_undo() changed and is b
\* afterwards, likewise Redo(b) for can_redo() and Saved(b) for is_saved(),
\* each at most once.
C10_EdgeTriggered ==
    [][/\ Edge("Undo", emitted', can_undo(Self), can_undo(Self'))
       /\ Edge("Redo", emitted', can_redo(Self), can_redo(Self'))
       /\ Edge("Saved", emitted', is_saved(Self), is_saved(Self'))]_vars

\* C10 witness: a clear that changed all three queries sent all three.
C10_Witness ==
    /\ last.op = "clear"
    /\ emitted = <<SigActive(1, 0), SigUndo(FALSE), SigRedo(FALSE), SigSaved(TRUE)>>

\* C11: a successful redo leaves at commands[cursor] the command as its own
\* redo operation leaves it: Record::redo calls Command::redo, so that an
\* override is run.
C11_RedoCallsRedo ==
    can_redo(Self) =>
        LET o == redo(Self)
            c == CmdRedo(commands[cursor + 1], receiver)
        IN o.res = "Ok" => /\ o.rec.commands[cursor + 1] = c.c
                           /\ o.rec.receiver = c.r

\* C12: when the command's apply fails, Record::apply returns an error that
\* carries that command, sends no signal, and leaves commands (the redoable
\* tail too), cursor, saved and limit as they were.
C12_ApplyError ==
    \A c \in Inputs :
        LET o == apply(Self, c)
        IN o.res = "Err"
               => /\ o.back = {c}
                  /\ o.sigs = <<>>
                  /\ o.rec.commands = commands
                  /\ o.rec.cursor = cursor
                  /\ o.rec.saved = saved
                  /\ o.rec.limit = limit

\* C12 witness: an apply failed on a record that has commands to redo.
C12_Witness ==
    /\ last.op = "apply" /\ last.res = "Err"
    /\ emitted = <<>>
    /\ can_redo(Self)

\* C13: when the command fails inside undo (or redo), the call returns
\* Some(Err), no signal is sent, cursor, len and saved are unchanged, and the
\* commands stay where they are, so that the same call can be made again.
C13_UndoRedoError ==
    [][(last'.op \in {"undo", "redo"} /\ last'.res = "Err")
          => /\ emitted' = <<>>
             /\ cursor' = cursor
             /\ Len(commands') = Len(commands)
             /\ saved' = saved
             /\ commands' = commands
             /\ last'.op = "undo" => can_undo(Self')
             /\ last'.op = "redo" => can_redo(Self')]_vars

\* C13 witness: an undo failed between two commands, on a saved record.
C13_Witness ==
    /\ last.op = "undo" /\ last.res = "Err"
    /\ can_undo(Self) /\ can_redo(Self)
    /\ is_saved(Self)

\* C14: undo returns None exactly when cursor = 0 and redo exactly when
\* cursor = len; then no signal is sent and receiver, commands, cursor and
\* saved are unchanged.
C14_NoneAtTheEnds ==
    [][/\ last'.op = "undo" => (last'.res = "None" <=> cursor = 0)
       /\ last'.op = "redo" => (last'.res = "None" <=> cursor = Len(commands))
       /\ (last'.op \in {"undo", "redo"} /\ last'.res = "None")
             => /\ emitted' = <<>>
                /\ UNCHANGED <<receiver, commands, cursor, saved>>]_vars

\* C14 witness: redo returned None at the top of a record with commands.
C14_Witness ==
    /\ last.op = "redo" /\ last.res = "None"
    /\ cursor = Len(commands) /\ cursor > 0

\* C15: a successful apply at cursor c removes exactly commands[c..len) and
\* hands them back in their order; commands[0..c) stay in their order, but
\* for the top command when the new one is merged into it and the front
\* command when the limit drops it; and nothing can be redone afterwards.
C15_TailHandedBack ==
    \A c \in Inputs :
        LET o == apply(Self, c)
            below == SubSeq(commands, 1, cursor)
        IN (ApplyGuard(Self, c) /\ o.res = "Ok")
               => /\ o.tail = SubSeq(commands, cursor + 1, Len(commands))
                  /\ ~can_redo(o.rec)
                  /\ IF Pushed(o)
                     THEN Front(o.rec.commands) = IF o.evicted THEN Tail(below) ELSE below
                     ELSE /\ len(o.rec) = Len(below)
                          /\ Front(o.rec.commands) = Front(below)

\* C15 witness: a command was pushed right after an undo, above a command
\* that stayed.
C15_Witness ==
    /\ trail = <<"u", "aP">>
    /\ last.op = "apply" /\ last.res = "Ok"
    /\ cursor = Len(commands) /\ cursor >= 2

C18_ActiveOnly ==
    \A cmd \in Inputs :
        LET push == [r |-> GroupPush(GSelf, cmd), op |-> "push"]
            und == [r |-> GroupUndo(GSelf), op |-> "undo"]
            red == [r |-> GroupRedo(GSelf), op |-> "redo"]
        IN \A c \in {push, und, red} :
             /\ DOMAIN c.r.g.map = DOMAIN map
             /\ c.r.g.active = active
             /\ \A k \in DOMAIN map \ active : c.r.g.map[k] = map[k]
             /\ active = {} => c.r.res = "None" /\ c.r.g.map = map
             /\ \A k \in active \cap DOMAIN map :
                   LET o == IF c.op = "push" THEN apply(map[k], cmd)
                            ELSE IF c.op = "undo" THEN undo(map[k])
                            ELSE redo(map[k])
                   IN c.r.res = o.res /\ c.r.g.map[k] = o.rec

\* A push has changed the active Record, next to another Record that holds
\* a command of its own.
C18_Witness ==
    /\ last.op = "push" /\ last.res = "Ok"
    /\ active = {"k1"} /\ DOMAIN map = Keys
    /\ map["k1"].receiver = <<"a", "b">>
    /\ map["k2"].receiver = <<"b">>

\* C19: when is_saved() holds right before an apply, merge is not called on
\* the top command: the command is pushed as an entry of its own, and one
\* undo comes back to the saved position, with is_saved() and the receiver of
\* before the apply.
C19_NoMergeWhenSaved ==
    is_saved(Self) =>
        \A c \in Inputs :
            LET o == apply(Self, c)
                w == undo(o.rec)
            IN o.res = "Ok" =>
                 /\ o.merge = "Push"
                 /\ len(o.rec) = IF o.evicted THEN cursor ELSE cursor + 1
                 /\ Last(o.rec.commands) = CmdApply(c, receiver).c
                 /\ \A i \in 1..(len(o.rec) - 1) :
                       o.rec.commands[i] = commands[IF o.evicted THEN i + 1 ELSE i]
                 /\ w.res = "Ok"
                 /\ is_saved(w.rec)
                 /\ w.rec.receiver = receiver

\* C19 witness: a merging command was applied on top of a merging command
\* of a saved record and is an entry of its own.
C19_Witness ==
    /\ last.op = "apply" /\ last.res = "Ok" /\ last.merge = "Push"
    /\ cursor = Len(commands) /\ cursor >= 2
    /\ saved = {cursor - 1}
    /\ commands[cursor].kind = "Add" /\ commands[cursor].merges
    /\ commands[cursor - 1].kind = "Add" /\ commands[cursor - 1].merges

\* C20: saved is None or Some(k) with 0 <= k <= len in every reachable state,
\* and an apply that returns Ok at a cursor below the saved index leaves
\* saved None.
C20_SavedInRange ==
    /\ \A k \in saved : 0 <= k /\ k <= Len(commands)
    /\ \A c \in Inputs :
          LET o == apply(Self, c)
          IN (o.res = "Ok" /\ \E k \in saved : k > cursor) => o.rec.saved = {}

\* C20 witness: after set_saved, an apply below the saved cursor, without a
\* dropped front command, has left saved None.
C20_Witness ==
    /\ last.op = "apply" /\ last.res = "Ok" /\ ~last.evicted
    /\ mark.at # {} /\ \A k \in mark.at : k >= cursor /\ k > 0
    /\ ~mark.intact
    /\ saved = {}

\* What C21 says of a push: with limit > 0 and cursor = limit the front
\* command goes, cursor and len stay at limit and saved moves down by one
\* (Some(0) becomes None); in every other push the cursor grows by one, saved
\* is not moved down, and len is `length`.
PushAsC21(rec, o, length) ==
    IF rec.limit > 0 /\ rec.cursor = rec.limit
    THEN /\ Front(o.rec.commands) = Tail(rec.commands)
         /\ o.rec.cursor = rec.limit
         /\ len(o.rec) = rec.limit
         /\ o.rec.saved = {k - 1 : k \in {j \in rec.saved : j >= 1}}
    ELSE /\ o.rec.cursor = rec.cursor + 1
         /\ len(o.rec) = length
         /\ o.rec.saved \subseteq rec.saved
         /\ Front(o.rec.commands) = SubSeq(rec.commands, 1, rec.cursor)

\* C21 as stated: in a push that does not drop the front command, len
\* grows by one.
C21_Original ==
    \A c \in Inputs :
        LET o == apply(Self, c)
        IN (o.res = "Ok" /\ o.merge \in {"Push", "No"})
               => PushAsC21(Self, o, len(Self) + 1)

\* C21: a push with limit > 0 and cursor = limit drops the front command,
\* leaves cursor and len at limit and moves saved down by one (Some(0)
\* becomes None); every other push leaves cursor and len at one more than the
\* cursor of before, and does not move saved down.
C21_PushAtLimit ==
    \A c \in Inputs :
        LET o == apply(Self, c)
        IN (o.res = "Ok" /\ o.merge \in {"Push", "No"})
               => PushAsC21(Self, o, cursor + 1)

\* C21 witness: a push dropped the front command of a full record and the
\* saved index moved down with it.
C21_Witness ==
    /\ last.op = "apply" /\ last.res = "Ok" /\ last.evicted
    /\ limit = 2 /\ cursor = limit /\ Len(commands) = limit
    /\ saved = {1}
    /\ snapshot # <<>>

\* C22: a successful apply sends, in this order and nothing else, the cursor
\* signal with the cursor of before and of after (also when they are equal),
\* Redo(false) if can_redo() held before, Undo(true) if can_undo() did not,
\* Saved(false) if is_saved() held before.
C22_ApplySignalOrder ==
    [][(last'.op = "apply" /\ last'.res = "Ok") =>
          emitted' = <<SigActive(cursor, cursor')>>
                       \o If(can_redo(Self), SigRedo(FALSE))
                       \o If(~can_undo(Self), SigUndo(TRUE))
                       \o If(is_saved(Self), SigSaved(FALSE))]_vars

\* C22 witness: an apply below the top merged into the command under the
\* cursor: the cursor signal has old = new and Redo(false) follows it.
C22_Witness ==
    /\ last.op = "apply" /\ last.res = "Ok" /\ last.merge = "Yes"
    /\ emitted = <<SigActive(cursor, cursor), SigRedo(FALSE)>>

\* C23: a successful undo moves the cursor down by one and sends, in order,
\* the cursor signal, Redo(true) iff old = len, Undo(false) iff old = 1 and
\* Saved(is_saved) iff is_saved() changed; a successful redo moves the cursor
\* up by one and sends, in order, the cursor signal, Redo(false) iff
\* old = len - 1, Undo(true) iff old = 0 and Saved(is_saved) iff is_saved()
\* changed.
C23_UndoRedoSignalOrder ==
    [][/\ (last'.op = "undo" /\ last'.res = "Ok") =>
            /\ cursor' = cursor - 1
            /\ emitted' = <<SigActive(cursor, cursor - 1)>>
                            \o If(cursor = Len(commands), SigRedo(TRUE))
                            \o If(cursor = 1, SigUndo(FALSE))
                            \o If(is_saved(Self) # is_saved(Self'),
                                  SigSaved(is_saved(Self')))
       /\ (last'.op = "redo" /\ last'.res = "Ok") =>
            /\ cursor' = cursor + 1
            /\ emitted' = <<SigActive(cursor, cursor + 1)>>
                            \o If(cursor = Len(commands) - 1, SigRedo(FALSE))
                            \o If(cursor = 0, SigUndo(TRUE))
                            \o If(is_saved(Self) # is_saved(Self'),
                                  SigSaved(is_saved(Self')))]_vars

\* C23 witness: a redo of the only command, back to the saved cursor, sent
\* all four signals.
C23_Witness ==
    /\ last.op = "redo" /\ last.res = "Ok"
    /\ emitted = <<SigActive(0, 1), SigRedo(FALSE), SigUndo(TRUE), SigSaved(TRUE)>>

\* C24: set_saved sets saved to Some(cursor) and sends Saved(true) iff
\* is_saved() did not hold; set_unsaved sets saved to None and sends
\* Saved(false) iff is_saved() held; neither changes commands, cursor, limit
\* or the receiver, and the second of two such calls in a row sends nothing.
C24_SetSavedUnsaved ==
    [][/\ last'.op = "set_saved" =>
            /\ saved' = {cursor}
            /\ emitted' = If(~is_saved(Self), SigSaved(TRUE))
            /\ UNCHANGED <<commands, cursor, limit, receiver>>
            /\ last.op = "set_saved" => emitted' = <<>>
       /\ last'.op = "set_unsaved" =>
            /\ saved' = {}
            /\ emitted' = If(is_saved(Self), SigSaved(FALSE))
            /\ UNCHANGED <<commands, cursor, limit, receiver>>
            /\ last.op = "set_unsaved" => emitted' = <<>>]_vars

\* C24 witness: set_saved below the top of a record that was not saved.
C24_Witness ==
    /\ last.op = "set_saved"
    /\ emitted = <<SigSaved(TRUE)>>
    /\ saved = {cursor} /\ cursor = 1 /\ Len(commands) = 2
    /\ snapshot = receiver /\ receiver # <<>>

\* C25: clear leaves the receiver and limit, removes every command, sets
\* cursor = 0 and saved = Some(0), so that can_undo() and can_redo() are false
\* and is_saved() is true, and sends, in order, the cursor signal iff the
\* cursor was not 0, Undo(false) iff can_undo() held, Redo(false) iff
\* can_redo() held, Saved(true) iff is_saved() did not hold.
C25_Clear ==
    [][last'.op = "clear" =>
          /\ UNCHANGED <<receiver, limit>>
          /\ commands' = <<>>
          /\ cursor' = 0
          /\ saved' = {0}
          /\ ~can_undo(Self') /\ ~can_redo(Self') /\ is_saved(Self')
          /\ emitted' = If(cursor # 0, SigActive(cursor, 0))
                          \o If(can_undo(Self), SigUndo(FALSE))
                          \o If(can_redo(Self), SigRedo(FALSE))
                          \o If(~is_saved(Self), SigSaved(TRUE))]_vars

\* C25 witness: a clear with the cursor between two commands of a record
\* that was not saved: the four signals, and the receiver kept.
C25_Witness ==
    /\ last.op = "clear"
    /\ emitted = <<SigActive(1, 0), SigUndo(FALSE), SigRedo(FALSE), SigSaved(TRUE)>>
    /\ commands = <<>> /\ cursor = 0 /\ saved = {0}
    /\ Len(receiver) = 1

C28_UndoRedoFrame ==
    [][/\ (last'.op = "undo" /\ last'.res = "Ok") =>
            /\ cursor' = cursor - 1
            /\ Len(commands') = Len(commands)
            /\ \A i \in 1..Len(commands) :
                  commands'[i] = IF i = cursor
                                 THEN CmdUndo(commands[i], receiver).c
                                 ELSE commands[i]
            /\ commands'[cursor].kind = commands[cursor].kind
            /\ UNCHANGED <<saved, limit>>
       /\ (last'.op = "redo" /\ last'.res = "Ok") =>
            /\ cursor' = cursor + 1
            /\ Len(commands') = Len(commands)
            /\ \A i \in 1..Len(commands) :
                  commands'[i] = IF i = cursor + 1
                                 THEN CmdApply(commands[i], receiver).c
                                 ELSE commands[i]
            /\ commands'[cursor + 1].kind = commands[cursor + 1].kind
            /\ UNCHANGED <<saved, limit>>]_vars

\* C28 witness: a redo between two commands, below the saved cursor.
C28_Witness ==
    /\ last.op = "redo" /\ last.res = "Ok"
    /\ Len(commands) = 2 /\ cursor = 1 /\ saved = {2} /\ limit = 2

\* undo called again and again, at most `fuel` times, until it does not
\* return Ok: the number of Ok results, the result that ended the run
\* ("More" when the calls ran out) and the Record then.
RECURSIVE UndoRun(_, _)
UndoRun(rec, fuel) ==
    IF fuel = 0 THEN [oks |-> 0, res |-> "More", rec |-> rec]
    ELSE IF undo(rec).res # "Ok" THEN [oks |-> 0, res |-> undo(rec).res, rec |-> undo(rec).rec]
    ELSE [UndoRun(undo(rec).rec, fuel - 1) EXCEPT !.oks = @ + 1]

\* The same for redo.
RECURSIVE RedoRun(_, _)
RedoRun(rec, fuel) ==
    IF fuel = 0 THEN [oks |-> 0, res |-> "More", rec |-> rec]
    ELSE IF redo(rec).res # "Ok" THEN [oks |-> 0, res |-> redo(rec).res, rec |-> redo(rec).rec]
    ELSE [RedoRun(redo(rec).rec, fuel - 1) EXCEPT !.oks = @ + 1]

\* C29: from every reachable state, with commands that do not fail, undo
\* called again and again returns Ok cursor times and then None, with cursor
\* 0 and can_undo() false; redo returns Ok len - cursor times and then None,
\* with cursor = len.
C29_UndoRedoRunOut ==
    LET u == UndoRun(Self, Len(commands) + 2)
        r == RedoRun(Self, Len(commands) + 2)
    IN /\ u.oks = cursor /\ u.res = "None"
       /\ u.rec.cursor = 0 /\ ~can_undo(u.rec)
       /\ r.oks = Len(commands) - cursor /\ r.res = "None"
       /\ r.rec.cursor = Len(commands) /\ ~can_redo(r.rec)

\* C29 witness: undo has run out on a record of two commands.
C29_Witness ==
    /\ last.op = "undo" /\ last.res = "None"
    /\ cursor = 0 /\ Len(commands) = 2
    /\ receiver = base

\* C30: Group::set(Some(k)) with k not in the group returns false and leaves
\* the active key; set(Some(k)) with k in the group, and set(None), return
\* true and make k, or none, the active key; after a set(Some(k)) that
\* returned true, get() is the item stored under k.
C30_GroupSet ==
    /\ \A k \in Keys :
          LET r == GroupSet(GSelf, {k})
          IN IF k \in DOMAIN map
             THEN /\ r.res = "true"
                  /\ r.g.active = {k}
                  /\ r.g.map = map
                  /\ GroupGet(r.g) = {map[k]}
             ELSE /\ r.res = "false"
                  /\ r.g.active = active
                  /\ r.g.map = map
    /\ GroupSet(GSelf, {}).res = "true"
    /\ GroupSet(GSelf, {}).g.active = {}
    /\ GroupSet(GSelf, {}).g.map = map

\* C30 witness: a set with a key that is not in the group was refused, and
\* the active key is the one of before, with a Record that has a command.
C30_Witness ==
    /\ last.op = "set" /\ last.res = "false"
    /\ active = {"k1"} /\ DOMAIN map = {"k1"}
    /\ GroupGet(GSelf) = {map["k1"]}
    /\ map["k1"].cursor = 1

\* C31: through insert, remove and set, an item that get() returns is the
\* item stored under the active key; once the active key was removed, and
\* until a set or an insert of that key, get(), push, undo and redo return
\* None and change no Record that is left.
C31_RemovedActiveKey ==
    /\ \A v \in GroupGet(GSelf) : \E k \in active : k \in DOMAIN map /\ v = map[k]
    /\ Cardinality(GroupGet(GSelf)) <= 1
    /\ (active # {} /\ active \cap DOMAIN map = {}) =>
          /\ GroupGet(GSelf) = {}
          /\ \A cmd \in Inputs :
                GroupPush(GSelf, cmd).res = "None" /\ GroupPush(GSelf, cmd).g = GSelf
          /\ GroupUndo(GSelf).res = "None" /\ GroupUndo(GSelf).g = GSelf
          /\ GroupRedo(GSelf).res = "None" /\ GroupRedo(GSelf).g = GSelf

\* C31 witness: the active key was removed, and a push then returned None
\* beside a Record that holds a command.
C31_Witness ==
    /\ last.op = "push" /\ last.res = "None"
    /\ active = {"k1"} /\ DOMAIN map = {"k2"}
    /\ map["k2"].cursor = 1

====
